---- MODULE Spec2Model ----
(***************************************************************************)
(* Hereditary base-b decompositions (package decomposition).               *)
(*                                                                         *)
(* A Decomposition holds a Go slice of monomes.  A slice is modelled by    *)
(* the address of its backing array in the heap `mem` (a sequence of       *)
(* arrays, an array being a sequence of monome structs); a monome struct   *)
(* holds coeff, base and the slice of its exponent.  Slices of length 0    *)
(* (nil, or make([]monome, 0)) have no backing storage and are NilSlice.   *)
(* Every operator that allocates or writes takes the heap and returns the  *)
(* new heap together with its result, [h |-> heap, d |-> slice].           *)
(***************************************************************************)
EXTENDS Integers, Sequences, FiniteSets, TLC

\* Bounds of the model.
MaxN == 13       \* New is called with n in -1 .. MaxN
MaxBase == 3     \* New is called with b in 0 .. MaxBase
MaxInc == 2      \* at most MaxInc calls of IncrementBase in a run
MaxDec == 5      \* at most MaxDec calls of Decrement in a run
MaxRenderN == 729  \* SpecRender calls New with n in 0 .. MaxRenderN
MaxArg == 6      \* the command is run with the argument -1 .. MaxArg
MaxIt == 10      \* the command is run with -it in -1 .. MaxIt

VARIABLES
    mem,     \* the heap: a sequence of arrays of monomes
    d,       \* the decomposition the caller currently holds (a slice)
    err,     \* the error returned by New ("" is nil)
    op,      \* the last operation called
    arg,     \* the decomposition passed to the last operation
    mem0,    \* the heap as it was when the last operation was called
    held,    \* every decomposition the caller was handed so far
    b0, n0,  \* the arguments New was called with
    incs,    \* number of IncrementBase calls so far
    decs,    \* number of Decrement calls so far
    out,     \* the text returned by the last String / LaTeX call
    cli      \* the command: its flags, arguments, position, output and exit

vars == <<mem, d, err, op, arg, mem0, held, b0, n0, incs, decs, out, cli>>

\* The zero value of Decomposition: a nil slice of monomes.
NilSlice == 0

\* d.monomes: the array a slice points to.
Monomes(h, s) == IF s = NilSlice THEN <<>> ELSE h[s]

\* A new backing array holding arr (make / append on a slice no one else
\* holds); a slice of length 0 has no backing array.
MakeSlice(h, arr) ==
    IF arr = <<>> THEN [h |-> h, d |-> NilSlice]
    ELSE [h |-> Append(h, arr), d |-> Len(h) + 1]

\* The monome struct literal.
monome(c, b, e) == [coeff |-> c, base |-> b, exponent |-> e]

----------------------------------------------------------------------------
\* Predicates on decompositions and monomes.

IsZero(h, s) == Len(Monomes(h, s)) = 0

monomeIsZero(m) == m.coeff = 0

monomeIsOne(h, m) == m.coeff = 1 /\ IsZero(h, m.exponent)

isOne(h, s) == Len(Monomes(h, s)) = 1 /\ monomeIsOne(h, Monomes(h, s)[1])

----------------------------------------------------------------------------
\* Construction.

RECURSIVE recDecompose(_, _, _, _)
\* recDecompose with the place index k not advanced for the next digit.
recDecomposeSamePlace(h, b, n, k) ==
    IF n = 0 THEN [h |-> h, d |-> NilSlice]
    ELSE LET e == recDecompose(h, b, k, 0)
             singleton == <<monome(n % b, b, e.d)>>
             rest == recDecompose(e.h, b, n \div b, k)
         IN  MakeSlice(rest.h, singleton \o Monomes(rest.h, rest.d))

recDecompose(h, b, n, k) ==
    IF n = 0 THEN [h |-> h, d |-> NilSlice]
    ELSE LET e == recDecompose(h, b, k, 0)
             singleton == <<monome(n % b, b, e.d)>>
             rest == recDecompose(e.h, b, n \div b, k + 1)
         IN  MakeSlice(rest.h, singleton \o Monomes(rest.h, rest.d))

RECURSIVE clean(_, _)
RECURSIVE cleanLoop(_, _, _, _)
\* The range loop of clean: i is the next index, cleaned the slice built so far.
cleanLoop(h, s, i, cleaned) ==
    IF i > Len(Monomes(h, s)) THEN MakeSlice(h, cleaned)
    ELSE LET m == Monomes(h, s)[i]
         IN  IF monomeIsZero(m) THEN cleanLoop(h, s, i + 1, cleaned)
             ELSE LET e == clean(h, m.exponent)
                  IN  cleanLoop(e.h, s, i + 1,
                                Append(cleaned, monome(m.coeff, m.base, e.d)))

\* clean that removes nothing.
cleanNothing(h, s) == [h |-> h, d |-> s]

clean(h, s) == cleanLoop(h, s, 1, <<>>)

ErrNegative == "n must be non negative"
ErrBase == "base must be at least 2"

\* New with the base check off by one (b <= 2).
NewBaseOffByOne(h, b, n) ==
    IF n < 0 THEN [h |-> h, d |-> NilSlice, err |-> ErrNegative]
    ELSE IF b <= 2 THEN [h |-> h, d |-> NilSlice, err |-> ErrBase]
    ELSE LET r == recDecompose(h, b, n, 0)
             c == clean(r.h, r.d)
         IN  [h |-> c.h, d |-> c.d, err |-> ""]

\* New(b, n): [h, d, err].
New(h, b, n) ==
    IF n < 0 THEN [h |-> h, d |-> NilSlice, err |-> ErrNegative]
    ELSE IF b < 2 THEN [h |-> h, d |-> NilSlice, err |-> ErrBase]
    ELSE LET r == recDecompose(h, b, n, 0)
             c == clean(r.h, r.d)
         IN  [h |-> c.h, d |-> c.d, err |-> ""]

----------------------------------------------------------------------------
\* Evaluation.

RECURSIVE Pow(_, _)
\* big.Int.Exp(b, e, nil) for e >= 0.
Pow(b, e) == IF e = 0 THEN 1 ELSE b * Pow(b, e - 1)

RECURSIVE Eval(_, _)
RECURSIVE EvalLoop(_, _, _, _)
monomeEval(h, m) == m.coeff * Pow(m.base, Eval(h, m.exponent))

EvalLoop(h, s, i, result) ==
    IF i > Len(Monomes(h, s)) THEN result
    ELSE EvalLoop(h, s, i + 1, result + monomeEval(h, Monomes(h, s)[i]))

Eval(h, s) == EvalLoop(h, s, 1, 0)

----------------------------------------------------------------------------
\* Deep copies.

\* Assignment to an element of a backing array: arr[i] = m.
Store(h, s, i, m) == [h EXCEPT ![s][i] = m]

\* make([]monome, n): a new array of n zero monomes.
Make(h, n) == MakeSlice(h, [i \in 1 .. n |-> monome(0, 0, NilSlice)])

RECURSIVE copyDecomposition(_, _)
RECURSIVE copyLoop(_, _, _, _)

\* copyMonome(m): [h, m].
copyMonome(h, m) ==
    LET e == copyDecomposition(h, m.exponent)
    IN  [h |-> e.h, m |-> monome(m.coeff, m.base, e.d)]

\* The range loop of copyDecomposition: copied[i] = copyMonome(m).
copyLoop(h, s, copied, i) ==
    IF i > Len(Monomes(h, s)) THEN [h |-> h, d |-> copied]
    ELSE LET c == copyMonome(h, Monomes(h, s)[i])
         IN  copyLoop(Store(c.h, copied, i, c.m), s, copied, i + 1)

\* copyDecomposition that returns its argument: the same backing array.
copyDecompositionAlias(h, s) == [h |-> h, d |-> s]

copyDecomposition(h, s) ==
    LET copied == Make(h, Len(Monomes(h, s)))
    IN  copyLoop(copied.h, s, copied.d, 1)

----------------------------------------------------------------------------
\* Base increment.

RECURSIVE IncrementBase(_, _)
RECURSIVE IncrementBaseLoop(_, _, _, _)
\* The range loop of an IncrementBase that leaves the exponents' bases alone.
IncrementBaseLoopShallow(h, s, incremented, i) ==
    IF i > Len(Monomes(h, s)) THEN [h |-> h, d |-> incremented]
    ELSE LET m == Monomes(h, s)[i]
             e == copyDecomposition(h, m.exponent)
         IN  IncrementBaseLoop(
                 Store(e.h, incremented, i, monome(m.coeff, m.base + 1, e.d)),
                 s, incremented, i + 1)

\* The range loop of IncrementBase: incremented[i] = monome{...}.
IncrementBaseLoop(h, s, incremented, i) ==
    IF i > Len(Monomes(h, s)) THEN [h |-> h, d |-> incremented]
    ELSE LET m == Monomes(h, s)[i]
             e == IncrementBase(h, m.exponent)
         IN  IncrementBaseLoop(
                 Store(e.h, incremented, i, monome(m.coeff, m.base + 1, e.d)),
                 s, incremented, i + 1)

IncrementBase(h, s) ==
    LET incremented == Make(h, Len(Monomes(h, s)))
    IN  IncrementBaseLoop(incremented.h, s, incremented.d, 1)

----------------------------------------------------------------------------
\* Decrement.

\* No reordering of lsms.
ReverseNot(lsms) == lsms

\* The swap loop of Decrement: lsms in the opposite order.
Reverse(lsms) == [i \in 1 .. Len(lsms) |-> lsms[Len(lsms) + 1 - i]]

\* A call that does not return: the Go runtime panics (index out of range).
Panic == -1

RECURSIVE Decrement(_, _)
RECURSIVE DecrementLoop(_, _, _, _)
\* A Decrement loop that borrows nothing: no filler monome.
DecrementLoopNoBorrow(h, decremented, exp, lsms) == [h |-> h, lsms |-> lsms]

\* A Decrement loop whose filler monomes have coefficient base.
DecrementLoopFullBase(h, decremented, exp, lsms) ==
    IF IsZero(h, exp) THEN [h |-> h, lsms |-> lsms]
    ELSE LET e == Decrement(h, exp)
             c == copyDecomposition(e.h, e.d)
             first == Monomes(c.h, decremented)[1]
         IN  DecrementLoop(c.h, decremented, e.d,
                           Append(lsms, monome(first.base, first.base, c.d)))

\* A Decrement that borrows once (`if` in place of `for`): one filler monome.
DecrementLoopOnce(h, decremented, exp, lsms) ==
    IF IsZero(h, exp) THEN [h |-> h, lsms |-> lsms]
    ELSE LET e == Decrement(h, exp)
             c == copyDecomposition(e.h, e.d)
             first == Monomes(c.h, decremented)[1]
         IN  [h |-> c.h,
              lsms |-> Append(lsms, monome(first.base - 1, first.base, c.d))]

\* The loop `for !exp.IsZero()` of Decrement: [h, lsms].
DecrementLoop(h, decremented, exp, lsms) ==
    IF IsZero(h, exp) THEN [h |-> h, lsms |-> lsms]
    ELSE LET e == Decrement(h, exp)
             c == copyDecomposition(e.h, e.d)
             first == Monomes(c.h, decremented)[1]
         IN  DecrementLoop(c.h, decremented, e.d,
                           Append(lsms, monome(first.base - 1, first.base, c.d)))

\* Decrement after its zero check, without the final clean.
decrementNonZeroNoClean(h, s) ==
    LET c == copyDecomposition(h, s)
        decremented == c.d
    IN  IF Len(Monomes(c.h, decremented)) = 0 THEN [h |-> c.h, d |-> Panic]
        ELSE LET h1 == [c.h EXCEPT ![decremented][1].coeff = @ - 1]
                 exp == Monomes(h1, decremented)[1].exponent
                 l == DecrementLoop(h1, decremented, exp, <<>>)
             IN  MakeSlice(l.h, Reverse(l.lsms) \o Monomes(l.h, decremented))

\* Decrement after its zero check.  decremented[0] is bounds-checked by
\* the runtime.
decrementNonZero(h, s) ==
    LET c == copyDecomposition(h, s)
        decremented == c.d
    IN  IF Len(Monomes(c.h, decremented)) = 0 THEN [h |-> c.h, d |-> Panic]
        ELSE LET h1 == [c.h EXCEPT ![decremented][1].coeff = @ - 1]
                 exp == Monomes(h1, decremented)[1].exponent
                 l == DecrementLoop(h1, decremented, exp, <<>>)
                 appended == MakeSlice(l.h, Reverse(l.lsms)
                                            \o Monomes(l.h, decremented))
             IN  clean(appended.h, appended.d)

\* Decrement without its zero check.
DecrementUnchecked(h, s) == decrementNonZero(h, s)

Decrement(h, s) ==
    IF IsZero(h, s) THEN [h |-> h, d |-> NilSlice]
    ELSE decrementNonZero(h, s)

----------------------------------------------------------------------------
\* Rendering.

Digits == <<"0", "1", "2", "3", "4", "5", "6", "7", "8", "9">>

RECURSIVE FormatNat(_)
FormatNat(n) ==
    IF n < 10 THEN Digits[n + 1]
    ELSE FormatNat(n \div 10) \o Digits[(n % 10) + 1]

\* strconv.FormatInt(int64(n), 10)
FormatInt(n) == IF n < 0 THEN "-" \o FormatNat(-n) ELSE FormatNat(n)

RECURSIVE Join(_, _)
\* strings.Join(strs, sep)
Join(strs, sep) ==
    IF Len(strs) = 0 THEN ""
    ELSE IF Len(strs) = 1 THEN strs[1]
    ELSE strs[1] \o sep \o Join(Tail(strs), sep)

RECURSIVE string(_, _, _, _, _)

\* monome.string that forgets the coefficient in front of a bare base.
monomeStringNoCoeff(h, m, times, leftGroup, rightGroup) ==
    IF monomeIsZero(m) THEN "0"
    ELSE LET strCoeff == FormatInt(m.coeff)
             strBase == FormatInt(m.base)
             times2 == " " \o times \o " "
         IN  IF IsZero(h, m.exponent) THEN strCoeff
             ELSE IF isOne(h, m.exponent) THEN strBase
             ELSE LET result == strBase \o " ^ " \o leftGroup
                                \o string(h, m.exponent, times2, leftGroup, rightGroup)
                                \o rightGroup
                  IN  IF m.coeff = 1 THEN result
                      ELSE strCoeff \o times2 \o result

monomeString(h, m, times, leftGroup, rightGroup) ==
    IF monomeIsZero(m) THEN "0"
    ELSE LET strCoeff == FormatInt(m.coeff)
             strBase == FormatInt(m.base)
             times2 == " " \o times \o " "
         IN  IF IsZero(h, m.exponent) THEN strCoeff
             ELSE IF isOne(h, m.exponent)
                  THEN IF m.coeff = 1 THEN strBase
                       ELSE strCoeff \o times2 \o strBase
             ELSE LET result == strBase \o " ^ " \o leftGroup
                                \o string(h, m.exponent, times2, leftGroup, rightGroup)
                                \o rightGroup
                  IN  IF m.coeff = 1 THEN result
                      ELSE strCoeff \o times2 \o result

string(h, s, times, leftGroup, rightGroup) ==
    LET l == Len(Monomes(h, s))
    IN  IF l = 0 THEN "0"
        ELSE Join([j \in 1 .. l |->
                     monomeString(h, Monomes(h, s)[l + 1 - j],
                                  times, leftGroup, rightGroup)],
                  " + ")

String(h, s) == string(h, s, "*", "(", ")")

\* The Go literal "\times" is the tab character followed by "imes".
LaTeX(h, s) == string(h, s, "\t" \o "imes", "{", "}")

----------------------------------------------------------------------------
\* The tree a slice denotes in a heap: its monomes, least significant
\* first, each with the tree of its exponent.
RECURSIVE Tree(_, _)
Tree(h, s) ==
    [i \in 1 .. Len(Monomes(h, s)) |->
        LET m == Monomes(h, s)[i]
        IN  [coeff |-> m.coeff, base |-> m.base, exponent |-> Tree(h, m.exponent)]]

\* What the caller keeps of a decomposition it was handed: the slice and
\* the tree it denoted at that time.
Handed(h, s) == [d |-> s, tree |-> Tree(h, s)]

----------------------------------------------------------------------------
\* The package-level functions IncrementBase(d), Decrement(d) and the
\* LaTeX method of the variant of the package the command is written
\* against.  There a Decomposition is a slice of pointers to monomes; the
\* monomes of a deep copy are pointed to by that copy alone, so they are
\* kept by value in the array here too.  New, clean, copyDecomposition,
\* IsZero, Eval and String are the same in both variants.

RECURSIVE IncrementBaseFunc(_, _)
RECURSIVE IncrementBaseFuncLoop(_, _, _, _)
\* The range loop of an IncrementBase(d) that leaves the exponents' bases
\* alone.
IncrementBaseFuncLoopShallow(h, s, i, incremented) ==
    IF i > Len(Monomes(h, s)) THEN MakeSlice(h, incremented)
    ELSE LET m == Monomes(h, s)[i]
             c == copyDecomposition(h, m.exponent)
         IN  IncrementBaseFuncLoop(c.h, s, i + 1,
                 Append(incremented, monome(m.coeff, m.base + 1, c.d)))

\* The range loop of IncrementBase(d): incremented = append(incremented, ...).
IncrementBaseFuncLoop(h, s, i, incremented) ==
    IF i > Len(Monomes(h, s)) THEN MakeSlice(h, incremented)
    ELSE LET m == Monomes(h, s)[i]
             c == copyDecomposition(h, m.exponent)
             e == IncrementBaseFunc(c.h, c.d)
         IN  IncrementBaseFuncLoop(e.h, s, i + 1,
                 Append(incremented, monome(m.coeff, m.base + 1, e.d)))

IncrementBaseFunc(h, s) == IncrementBaseFuncLoop(h, s, 1, <<>>)

RECURSIVE DecrementFunc(_, _)
RECURSIVE DecrementFuncLoop(_, _, _, _)
\* The loop `for !exp.IsZero()` of Decrement(d): each turn puts one
\* monome in front of decremented.  lsm is the monome decremented[0]
\* pointed to when the loop was entered.
DecrementFuncLoop(h, decremented, lsm, exp) ==
    IF IsZero(h, exp) THEN [h |-> h, d |-> decremented]
    ELSE LET e == DecrementFunc(h, exp)
             c == copyDecomposition(e.h, e.d)
             a == MakeSlice(c.h, <<monome(lsm.base - 1, lsm.base, c.d)>>
                                 \o Monomes(c.h, decremented))
         IN  DecrementFuncLoop(a.h, a.d, lsm, e.d)

DecrementFunc(h, s) ==
    IF IsZero(h, s) THEN [h |-> h, d |-> NilSlice]
    ELSE LET c == copyDecomposition(h, s)
             h1 == [c.h EXCEPT ![c.d][1].coeff = @ - 1]
             lsm == Monomes(h1, c.d)[1]
             l == DecrementFuncLoop(h1, c.d, lsm, lsm.exponent)
         IN  clean(l.h, l.d)

\* LaTeX of that variant: the literal is "\\times", a backslash and "times".
LaTeXFunc(h, s) == string(h, s, "\\times", "{", "}")

\* The command when it is not run.
CliIdle ==
    [pc |-> "idle", it |-> 0, latex |-> FALSE, header |-> FALSE, args |-> <<>>,
     i |-> 0, b |-> 0, stdout |-> <<>>, values |-> <<>>, log |-> "",
     exit |-> "", status |-> 0]

----------------------------------------------------------------------------
\* The caller: one call of New, then any calls of the methods.

Init ==
    /\ mem = <<>>
    /\ d = NilSlice
    /\ err = ""
    /\ op = "none"
    /\ arg = NilSlice
    /\ mem0 = <<>>
    /\ held = {}
    /\ b0 = 0
    /\ n0 = 0
    /\ incs = 0
    /\ decs = 0
    /\ out = ""
    /\ cli = CliIdle

CallNew(b, n) ==
    /\ op = "none"
    /\ LET r == New(mem, b, n)
       IN  /\ mem' = r.h
           /\ d' = r.d
           /\ err' = r.err
           /\ held' = {Handed(r.h, r.d)}
    /\ op' = "New"
    /\ b0' = b
    /\ n0' = n
    /\ UNCHANGED <<arg, mem0, incs, decs, out, cli>>

CallIncrementBase ==
    /\ op \notin {"none", "panic"}
    /\ err = ""
    /\ incs < MaxInc
    /\ LET r == IncrementBase(mem, d)
       IN  /\ mem' = r.h
           /\ d' = r.d
           /\ held' = held \cup {Handed(r.h, r.d)}
    /\ op' = "IncrementBase"
    /\ arg' = d
    /\ mem0' = mem
    /\ incs' = incs + 1
    /\ out' = ""
    /\ UNCHANGED <<err, b0, n0, decs, cli>>

CallDecrement ==
    /\ op \notin {"none", "panic"}
    /\ err = ""
    /\ decs < MaxDec
    /\ LET r == Decrement(mem, d)
       IN  IF r.d = Panic
           THEN /\ op' = "panic"
                /\ UNCHANGED <<mem, d, held>>
           ELSE /\ op' = "Decrement"
                /\ mem' = r.h
                /\ d' = r.d
                /\ held' = held \cup {Handed(r.h, r.d)}
    /\ arg' = d
    /\ mem0' = mem
    /\ decs' = decs + 1
    /\ out' = ""
    /\ UNCHANGED <<err, b0, n0, incs, cli>>

CallString ==
    /\ op \notin {"none", "panic", "String", "LaTeX"}
    /\ err = ""
    /\ out' = String(mem, d)
    /\ op' = "String"
    /\ arg' = d
    /\ mem0' = mem
    /\ UNCHANGED <<mem, d, err, held, b0, n0, incs, decs, cli>>

CallLaTeX ==
    /\ op \notin {"none", "panic", "String", "LaTeX"}
    /\ err = ""
    /\ out' = LaTeX(mem, d)
    /\ op' = "LaTeX"
    /\ arg' = d
    /\ mem0' = mem
    /\ UNCHANGED <<mem, d, err, held, b0, n0, incs, decs, cli>>

Next ==
    \/ \E b \in 0 .. MaxBase, n \in -1 .. MaxN : CallNew(b, n)
    \/ CallIncrementBase
    \/ CallDecrement
    \/ CallString
    \/ CallLaTeX

Spec == Init /\ [][Next]_vars

\* The caller that renders what New returns, for larger n.
RenderNext ==
    \/ \E b \in 2 .. MaxBase, n \in 0 .. MaxRenderN : CallNew(b, n)
    \/ CallString
    \/ CallLaTeX

SpecRender == Init /\ [][RenderNext]_vars

----------------------------------------------------------------------------
\* The command: goodstein [-it n] [-latex] [-header] argument.

\* The default of the flag -it.
DefaultIt == 10

IsDigit(c) == \E k \in 1 .. 10 : Digits[k] = c

DigitValue(c) == (CHOOSE k \in 1 .. 10 : Digits[k] = c) - 1

RECURSIVE ParseDigits(_, _, _)
\* The digits of str from position k on, after the value acc: [n, ok].
ParseDigits(str, k, acc) ==
    IF k > Len(str) THEN [n |-> acc, ok |-> TRUE]
    ELSE IF ~IsDigit(SubSeq(str, k, k)) THEN [n |-> 0, ok |-> FALSE]
    ELSE ParseDigits(str, k + 1, 10 * acc + DigitValue(SubSeq(str, k, k)))

\* strconv.ParseInt(str, 10, 64): an optional sign, then at least one digit.
ParseInt(str) ==
    LET signed == Len(str) > 0 /\ SubSeq(str, 1, 1) \in {"+", "-"}
        digits == IF signed THEN SubSeq(str, 2, Len(str)) ELSE str
        r == ParseDigits(digits, 1, 0)
    IN  IF Len(digits) = 0 \/ ~r.ok THEN [n |-> 0, ok |-> FALSE]
        ELSE IF signed /\ SubSeq(str, 1, 1) = "-" THEN [n |-> 0 - r.n, ok |-> TRUE]
        ELSE r

RECURSIVE QuoteFrom(_, _)
\* The characters of str from position k on, escaped as %q escapes them.
QuoteFrom(str, k) ==
    IF k > Len(str) THEN ""
    ELSE LET c == SubSeq(str, k, k)
             q == IF c = "\\" THEN "\\\\"
                  ELSE IF c = "\"" THEN "\\\""
                  ELSE IF c = "\t" THEN "\\t"
                  ELSE c
         IN  q \o QuoteFrom(str, k + 1)

\* The verb %q of fmt on a string.
Quote(str) == "\"" \o QuoteFrom(str, 1) \o "\""

\* The line fmt.Fprintf(os.Stdout, "%v %v %v %q\n", i, b, value, text) writes.
Line(i, b, value, text) ==
    FormatInt(i) \o " " \o FormatInt(b) \o " " \o FormatInt(value) \o " "
        \o Quote(text) \o "\n"

\* The argument lists the command is run with.
ArgLists ==
    {<<>>, <<"1", "2">>, <<"">>, <<"x">>, <<"1x">>, <<"+3">>}
        \cup {<<FormatInt(n)>> : n \in -1 .. MaxArg}

\* The command is started: flags and arguments are those of the run.
InitMain ==
    /\ mem = <<>>
    /\ d = NilSlice
    /\ err = ""
    /\ op = "none"
    /\ arg = NilSlice
    /\ mem0 = <<>>
    /\ held = {}
    /\ b0 = 0
    /\ n0 = 0
    /\ incs = 0
    /\ decs = 0
    /\ out = ""
    /\ cli \in {[CliIdle EXCEPT !.pc = "start", !.it = it, !.latex = latex,
                                !.header = header, !.args = args] :
                   it \in -1 .. MaxIt, latex \in BOOLEAN, header \in BOOLEAN,
                   args \in ArgLists}

\* os.Exit(status) after log.Print(message).
ExitWith(status, message) ==
    [cli EXCEPT !.pc = "exited", !.exit = "os.Exit", !.status = status,
                !.log = message]

\* main up to the loop: the checks of the flags and of the argument, the
\* first decomposition, the header.
MainStart ==
    /\ cli.pc = "start"
    /\ LET parsed == ParseInt(cli.args[1])
           r == New(mem, 2, parsed.n)
       IN  IF cli.it < 0
           THEN /\ cli' = ExitWith(1, "it must be positive")
                /\ UNCHANGED <<mem, d, err, op, held, b0, n0>>
           ELSE IF Len(cli.args) # 1
           THEN /\ cli' = ExitWith(1, "expecting one and only one argument")
                /\ UNCHANGED <<mem, d, err, op, held, b0, n0>>
           ELSE IF ~parsed.ok
           THEN /\ cli' = ExitWith(1, "invalid argument, expecting integer")
                /\ UNCHANGED <<mem, d, err, op, held, b0, n0>>
           ELSE IF parsed.n < 0
           THEN /\ cli' = ExitWith(1, "invalid argument, expecting positive integer")
                /\ UNCHANGED <<mem, d, err, op, held, b0, n0>>
           ELSE /\ mem' = r.h
                /\ d' = r.d
                /\ err' = r.err
                /\ op' = "New"
                /\ held' = {Handed(r.h, r.d)}
                /\ b0' = 2
                /\ n0' = parsed.n
                /\ IF r.err # ""
                   THEN cli' = ExitWith(2, "error while computing hereditary base-2 decomposition")
                   ELSE cli' = [cli EXCEPT
                                  !.pc = "loop", !.i = 0, !.b = 2,
                                  !.stdout = IF cli.header
                                             THEN <<"iteration base value decomposition\n">>
                                             ELSE <<>>]
    /\ UNCHANGED <<arg, mem0, incs, decs, out>>

\* The print and the zero check of a loop that never stops at zero.
MainPrintNoStop ==
    /\ cli.pc = "loop"
    /\ cli.i < cli.it
    /\ LET strDecomposition == IF cli.latex THEN LaTeXFunc(mem, d)
                               ELSE String(mem, d)
           value == Eval(mem, d)
       IN  /\ out' = strDecomposition
           /\ cli' = [cli EXCEPT
                        !.stdout = Append(@, Line(cli.i, cli.b, value,
                                                  strDecomposition)),
                        !.values = Append(@, value),
                        !.pc = "step"]
    /\ UNCHANGED <<mem, d, err, op, arg, mem0, held, b0, n0, incs, decs>>

\* One turn of the loop up to the zero check: the line is printed; the
\* command exits with status 0 when the decomposition is zero.
MainPrint ==
    /\ cli.pc = "loop"
    /\ cli.i < cli.it
    /\ LET strDecomposition == IF cli.latex THEN LaTeXFunc(mem, d)
                               ELSE String(mem, d)
           value == Eval(mem, d)
           printed == [cli EXCEPT
                         !.stdout = Append(@, Line(cli.i, cli.b, value,
                                                   strDecomposition)),
                         !.values = Append(@, value)]
       IN  /\ out' = strDecomposition
           /\ IF IsZero(mem, d)
              THEN cli' = [printed EXCEPT !.pc = "exited", !.exit = "os.Exit",
                                          !.status = 0]
              ELSE cli' = [printed EXCEPT !.pc = "step"]
    /\ UNCHANGED <<mem, d, err, op, arg, mem0, held, b0, n0, incs, decs>>

\* The rest of the turn: b++, d = Decrement(IncrementBase(d)), i++.
MainStep ==
    /\ cli.pc = "step"
    /\ LET inc == IncrementBaseFunc(mem, d)
           dec == DecrementFunc(inc.h, inc.d)
       IN  /\ mem' = dec.h
           /\ d' = dec.d
           /\ held' = held \cup {Handed(dec.h, dec.d)}
           /\ arg' = inc.d
           /\ mem0' = inc.h
    /\ op' = "Decrement"
    /\ incs' = incs + 1
    /\ decs' = decs + 1
    /\ cli' = [cli EXCEPT !.pc = "loop", !.b = @ + 1, !.i = @ + 1]
    /\ UNCHANGED <<err, b0, n0, out>>

\* The loop ends with i = it: main returns, the exit status is 0.
MainReturn ==
    /\ cli.pc = "loop"
    /\ cli.i >= cli.it
    /\ cli' = [cli EXCEPT !.pc = "exited", !.exit = "return", !.status = 0]
    /\ UNCHANGED <<mem, d, err, op, arg, mem0, held, b0, n0, incs, decs, out>>

MainNext ==
    \/ MainStart
    \/ MainPrint
    \/ MainStep
    \/ MainReturn

SpecMain == InitMain /\ [][MainNext]_vars

----------------------------------------------------------------------------
\* Reference notions on trees and on the heap, used to state the properties.

RECURSIVE BumpBase(_)
\* The tree t with every base, at every depth, increased by one.
BumpBase(t) ==
    [i \in 1 .. Len(t) |->
        [coeff |-> t[i].coeff, base |-> t[i].base + 1,
         exponent |-> BumpBase(t[i].exponent)]]

RECURSIVE Depth(_)
RECURSIVE MaxDepth(_, _)
MaxDepth(t, i) ==
    IF i > Len(t) THEN 0
    ELSE LET x == Depth(t[i].exponent)
             y == MaxDepth(t, i + 1)
         IN  IF x > y THEN x ELSE y

\* Nesting depth of a tree: 0 for the empty tree.
Depth(t) == IF Len(t) = 0 THEN 0 ELSE 1 + MaxDepth(t, 1)

\* The least significant monome of the argument of the last call.
ArgFirst == Monomes(mem0, arg)[1]

----------------------------------------------------------------------------
\* C1: Decrement of a non-zero decomposition evaluates to exactly the
\* value of its argument minus one, whatever the coefficient and the
\* exponent of the least significant monome.
C1_DecrementIsMinusOne ==
    (op = "Decrement" /\ ~IsZero(mem0, arg))
        => Eval(mem, d) = Eval(mem0, arg) - 1

\* A Decrement whose argument ends in 1 * b ^ e with e a nested exponent.
C1_Witness ==
    /\ op = "Decrement"
    /\ ~IsZero(mem0, arg)
    /\ ArgFirst.coeff = 1
    /\ Depth(Tree(mem0, ArgFirst.exponent)) >= 2
    /\ Eval(mem, d) = Eval(mem0, arg) - 1

\* Further cases of C1: a coefficient above 1 over a non-zero exponent,
\* and a zero exponent.
C1_CaseCoeffAboveOne ==
    /\ op = "Decrement"
    /\ ~IsZero(mem0, arg)
    /\ ArgFirst.coeff > 1
    /\ ~IsZero(mem0, ArgFirst.exponent)

C1_CaseZeroExponent ==
    /\ op = "Decrement"
    /\ ~IsZero(mem0, arg)
    /\ IsZero(mem0, ArgFirst.exponent)

\* C2: for b >= 2 and n >= 0, New(b, n) succeeds and the decomposition it
\* returns evaluates to n.
C2_RoundTrip ==
    (op = "New" /\ b0 >= 2 /\ n0 >= 0) => (err = "" /\ Eval(mem, d) = n0)

\* New(3, 11) = 3 ^ 2 + 2: two digits, one of them above 1.
C2_Witness ==
    /\ op = "New"
    /\ b0 = 3
    /\ n0 = 11
    /\ err = ""
    /\ Len(Monomes(mem, d)) = 2
    /\ Eval(mem, d) = 11

\* C3: IncrementBase returns the tree of its argument with the same
\* monomes, coefficients and exponent shapes, and every base, at every
\* depth, increased by exactly one.
C3_IncrementBaseShape ==
    op = "IncrementBase" => Tree(mem, d) = BumpBase(Tree(mem0, arg))

\* An IncrementBase of a decomposition with exponents inside exponents.
C3_Witness ==
    /\ op = "IncrementBase"
    /\ Depth(Tree(mem0, arg)) >= 3
    /\ Len(Monomes(mem0, arg)) >= 2
    /\ Tree(mem, d) = BumpBase(Tree(mem0, arg))

\* C4: no call changes a decomposition the caller was handed before: each
\* still denotes the tree it denoted when it was returned.
C4_InputsUnchanged ==
    \A x \in held : Tree(mem, x.d) = x.tree

\* A Decrement of a non-zero decomposition that IncrementBase returned,
\* with the decomposition New returned still held.
C4_Witness ==
    /\ op = "Decrement"
    /\ ~IsZero(mem0, arg)
    /\ incs >= 1
    /\ Cardinality(held) >= 3
    /\ Tree(mem, arg) = Tree(mem0, arg)

\* C5: New returns an error exactly when b < 2 or n < 0, the error for a
\* negative n differs from the error for a base below 2, and with an
\* error comes the zero decomposition.
C5_NewErrors ==
    op = "New" =>
        /\ (err # "") <=> (b0 < 2 \/ n0 < 0)
        /\ n0 < 0 => err = ErrNegative
        /\ (n0 >= 0 /\ b0 < 2) => err = ErrBase
        /\ ErrNegative # ErrBase
        /\ err # "" => (IsZero(mem, d) /\ d = NilSlice)

\* New(1, 5): the base is too small, n is fine.
C5_Witness ==
    /\ op = "New"
    /\ b0 = 1
    /\ n0 = 5
    /\ err = ErrBase
    /\ IsZero(mem, d)

\* C6: Decrement of the zero decomposition returns the zero decomposition
\* and does not panic.
C6_DecrementZero ==
    /\ op # "panic"
    /\ (op = "Decrement" /\ IsZero(mem0, arg)) => IsZero(mem, d)

\* Decrement called on New(b, 0).
C6_Witness ==
    /\ op = "Decrement"
    /\ n0 = 0
    /\ b0 >= 2
    /\ incs = 0
    /\ decs = 1
    /\ IsZero(mem0, arg)
    /\ IsZero(mem, d)

RECURSIVE NoZeroCoeff(_, _)
\* No monome of s, at any depth, has coefficient 0.
NoZeroCoeff(h, s) ==
    \A i \in 1 .. Len(Monomes(h, s)) :
        /\ Monomes(h, s)[i].coeff # 0
        /\ NoZeroCoeff(h, Monomes(h, s)[i].exponent)

\* C7: no monome of the decomposition held, at any depth, has coefficient
\* 0; it evaluates to 0 exactly when it is the empty sequence; Decrement
\* of the decomposition of one is the empty sequence.
C7_NoZeroCoeff ==
    /\ NoZeroCoeff(mem, d)
    /\ (Eval(mem, d) = 0) <=> IsZero(mem, d)
    /\ (op = "Decrement" /\ isOne(mem0, arg)) => Tree(mem, d) = <<>>

\* Decrement called on the decomposition of one.
C7_Witness ==
    /\ op = "Decrement"
    /\ isOne(mem0, arg)
    /\ Eval(mem0, arg) = 1
    /\ Tree(mem, d) = <<>>

RECURSIVE CoeffBelowBase(_, _)
\* Every monome of s, at every depth, has 0 <= coeff < base.
CoeffBelowBase(h, s) ==
    \A i \in 1 .. Len(Monomes(h, s)) :
        /\ Monomes(h, s)[i].coeff >= 0
        /\ Monomes(h, s)[i].coeff < Monomes(h, s)[i].base
        /\ CoeffBelowBase(h, Monomes(h, s)[i].exponent)

\* C8: every monome of the decomposition held, at every depth, has a
\* coefficient that is non-negative and below its own base.
C8_CoeffBelowBase == CoeffBelowBase(mem, d)

\* A Decrement that borrowed: the result starts with a filler monome of
\* coefficient base - 1 that the argument did not have.
C8_Witness ==
    /\ op = "Decrement"
    /\ ~IsZero(mem0, arg)
    /\ ~IsZero(mem0, ArgFirst.exponent)
    /\ Monomes(mem, d)[1].coeff = Monomes(mem, d)[1].base - 1
    /\ Len(Monomes(mem, d)) > Len(Monomes(mem0, arg))
    /\ CoeffBelowBase(mem, d)

RECURSIVE Increasing(_, _)
\* The exponents of s evaluate to strictly increasing values, and so do
\* those of every exponent inside s.
Increasing(h, s) ==
    /\ \A i \in 2 .. Len(Monomes(h, s)) :
           Eval(h, Monomes(h, s)[i].exponent)
               > Eval(h, Monomes(h, s)[i - 1].exponent)
    /\ \A i \in 1 .. Len(Monomes(h, s)) :
           Increasing(h, Monomes(h, s)[i].exponent)

\* C9: the monomes of the decomposition held are stored least significant
\* first, with strictly increasing exponent values, at every depth.
C9_Increasing == Increasing(mem, d)

\* A Decrement that put at least two filler monomes in front.
C9_Witness ==
    /\ op = "Decrement"
    /\ ~IsZero(mem0, arg)
    /\ Eval(mem0, ArgFirst.exponent) >= 2
    /\ Len(Monomes(mem, d)) >= Len(Monomes(mem0, arg)) + 1
    /\ Increasing(mem, d)

\* C10: a rendered monome with coefficient c > 1 and a non-zero exponent
\* has c and the base power separated by " \times " (a backslash, then
\* "times") in LaTeX and by " * " in String.  Stated for the most
\* significant monome, with which the text starts.
C10_TimesSeparator ==
    LET ms == Monomes(mem, d)
        m == ms[Len(ms)]
        sep == IF op = "LaTeX" THEN " \\times " ELSE " * "
        prefix == FormatInt(m.coeff) \o sep
    IN  (/\ op \in {"String", "LaTeX"}
         /\ Len(ms) > 0
         /\ m.coeff > 1
         /\ ~IsZero(mem, m.exponent))
            => SubSeq(out, 1, Len(prefix)) = prefix

\* The String half of C10 holds: " * " separates c and the base power.
C10_StringSeparator ==
    op = "String" => C10_TimesSeparator

\* Another decomposition New(b, n), with the text the renderer of the last
\* call (String or LaTeX) gives for it.
OtherRender(b, n) ==
    LET r == New(mem, b, n)
    IN  [tree |-> Tree(r.h, r.d),
         text |-> IF op = "LaTeX" THEN LaTeX(r.h, r.d) ELSE String(r.h, r.d)]

\* The last call rendered the decomposition New returned.
RenderedNew == op \in {"String", "LaTeX"} /\ incs = 0 /\ decs = 0

\* C11 as stated: two structurally distinct decompositions produced by New,
\* of any bases, never have the same String text nor the same LaTeX text.
C11_Injective ==
    RenderedNew =>
        \A b \in 2 .. MaxBase, n \in 0 .. MaxN :
            OtherRender(b, n).tree # Tree(mem, d) => OtherRender(b, n).text # out

\* C11 amended: two decompositions produced by New for different values n,
\* of any bases, never have the same String text nor the same LaTeX text.
C11_InjectiveOnValues ==
    RenderedNew =>
        \A b \in 2 .. MaxBase, n \in 0 .. MaxN :
            n # n0 => OtherRender(b, n).text # out

\* New(3, 6) rendered as "2 * 3", with New(3, 3) and New(2, 6) rendered
\* otherwise.
C11_Witness ==
    /\ RenderedNew
    /\ op = "String"
    /\ b0 = 3
    /\ n0 = 6
    /\ out = "2 * 3"
    /\ OtherRender(3, 3).text = "3"
    /\ OtherRender(2, 6).text # out

RECURSIVE RefString(_, _, _, _)
\* The reference rendering of a monome of a tree, with separator times.
RefMonome(m, times, leftGroup, rightGroup) ==
    IF Len(m.exponent) = 0 THEN FormatInt(m.coeff)
    ELSE IF /\ Len(m.exponent) = 1
            /\ m.exponent[1].coeff = 1
            /\ Len(m.exponent[1].exponent) = 0
         THEN IF m.coeff = 1 THEN FormatInt(m.base)
              ELSE FormatInt(m.coeff) \o times \o FormatInt(m.base)
    ELSE LET power == FormatInt(m.base) \o " ^ " \o leftGroup
                      \o RefString(m.exponent, times, leftGroup, rightGroup)
                      \o rightGroup
         IN  IF m.coeff = 1 THEN power
             ELSE FormatInt(m.coeff) \o times \o power

\* The reference rendering of a tree: "0" when empty, else its monomes
\* from most to least significant, joined by " + ".
RefString(t, times, leftGroup, rightGroup) ==
    IF Len(t) = 0 THEN "0"
    ELSE Join([j \in 1 .. Len(t) |->
                 RefMonome(t[Len(t) + 1 - j], times, leftGroup, rightGroup)],
              " + ")

\* C12: for every decomposition returned by New, String() and LaTeX()
\* equal the reference rendering, with " * " and parentheses for String
\* and " \times " and braces for LaTeX.
C12_ReferenceRendering ==
    /\ (RenderedNew /\ op = "String")
           => out = RefString(Tree(mem, d), " * ", "(", ")")
    /\ (RenderedNew /\ op = "LaTeX")
           => out = RefString(Tree(mem, d), " \\times ", "{", "}")

\* The String half of C12 alone: also violated, by a product inside an
\* exponent (New(3, 729) is 3 ^ (2 * 3)).
C12_StringReference ==
    (RenderedNew /\ op = "String")
        => out = RefString(Tree(mem, d), " * ", "(", ")")

\* The renderings C12 lists hold: they have no product.
C12_Fixtures ==
    /\ (RenderedNew /\ n0 = 0) => out = "0"
    /\ (RenderedNew /\ n0 = 1) => out = "1"
    /\ (RenderedNew /\ b0 = 2 /\ n0 = 10 /\ op = "String")
           => out = "2 ^ (2 + 1) + 2"
    /\ (RenderedNew /\ b0 = 2 /\ n0 = 10 /\ op = "LaTeX")
           => out = "2 ^ {2 + 1} + 2"
    /\ (RenderedNew /\ b0 = 3 /\ n0 = 10 /\ op = "String") => out = "3 ^ (2) + 1"
    /\ (RenderedNew /\ b0 = 3 /\ n0 = 10 /\ op = "LaTeX") => out = "3 ^ {2} + 1"

\* The tree of the hereditary base-b decomposition of n, as New builds it.
HereditaryTree(b, n) ==
    LET r == New(<<>>, b, n)
    IN  Tree(r.h, r.d)

\* What C13 says Decrement returns for a non-zero tree t whose least
\* significant exponent evaluates to e: the e filler monomes, then the
\* least significant monome with its coefficient decreased (dropped at
\* 0), then the other monomes of t.
BorrowTree(t, e) ==
    LET fillers == [j \in 1 .. e |->
                       [coeff |-> t[1].base - 1, base |-> t[1].base,
                        exponent |-> HereditaryTree(t[1].base, j - 1)]]
        lowered == IF t[1].coeff > 1
                   THEN <<[t[1] EXCEPT !.coeff = @ - 1]>>
                   ELSE <<>>
    IN  fillers \o lowered \o Tail(t)

\* C13: Decrement of a non-zero decomposition whose least significant
\* monome is c * b ^ e consists of one filler monome (b-1) * b ^ j for
\* every j in 0 .. Eval(e) - 1, in increasing order of j, then
\* (c-1) * b ^ e when c > 1, then the other monomes unchanged; with e
\* zero there is no filler and only that coefficient decreases.
C13_BorrowStructure ==
    (op = "Decrement" /\ ~IsZero(mem0, arg))
        => Tree(mem, d)
               = BorrowTree(Tree(mem0, arg), Eval(mem0, ArgFirst.exponent))

\* A Decrement of ... + 1 * b ^ e with e >= 2: at least two fillers in
\* front of the more significant monomes, the monome itself dropped.
C13_Witness ==
    /\ op = "Decrement"
    /\ Len(Monomes(mem0, arg)) >= 2
    /\ ArgFirst.coeff = 1
    /\ Eval(mem0, ArgFirst.exponent) >= 2
    /\ Len(Monomes(mem, d))
           = Len(Monomes(mem0, arg)) - 1 + Eval(mem0, ArgFirst.exponent)
    /\ Tree(mem, d)
           = BorrowTree(Tree(mem0, arg), Eval(mem0, ArgFirst.exponent))

\* Further cases of C13: the coefficient stays (c > 1) over a non-zero
\* exponent, and a zero exponent.
C13_CaseLowered ==
    /\ op = "Decrement"
    /\ ~IsZero(mem0, arg)
    /\ ArgFirst.coeff > 1
    /\ Eval(mem0, ArgFirst.exponent) >= 1
    /\ Monomes(mem, d)[2].coeff = ArgFirst.coeff - 1

\* C14: the decomposition held after New(b, n) and any calls of
\* IncrementBase and Decrement, k of them IncrementBase, is structurally
\* equal to New(b + k, its own value); in particular Decrement(New(b, n))
\* is structurally equal to New(b, n - 1) for n >= 1.
C14_Canonical ==
    /\ (op \notin {"none", "panic"} /\ err = "")
           => Tree(mem, d) = HereditaryTree(b0 + incs, Eval(mem, d))
    /\ (op = "Decrement" /\ incs = 0 /\ decs = 1 /\ n0 >= 1)
           => Tree(mem, d) = HereditaryTree(b0, n0 - 1)

\* A Decrement that borrowed, after an IncrementBase, with a result that
\* has nested exponents.
C14_Witness ==
    /\ op = "Decrement"
    /\ incs >= 1
    /\ ~IsZero(mem0, arg)
    /\ ~IsZero(mem0, ArgFirst.exponent)
    /\ Depth(Tree(mem, d)) >= 3
    /\ Tree(mem, d) = HereditaryTree(b0 + incs, Eval(mem, d))

RECURSIVE AllBases(_, _, _)
\* Every monome of s, at every depth, has base b.
AllBases(h, s, b) ==
    \A i \in 1 .. Len(Monomes(h, s)) :
        /\ Monomes(h, s)[i].base = b
        /\ AllBases(h, Monomes(h, s)[i].exponent, b)

\* The command has just printed the line of turn cli.i.
LinePrinted ==
    \/ cli.pc = "step"
    \/ cli.pc = "exited" /\ cli.exit = "os.Exit" /\ cli.status = 0

\* The last line written to standard output.
LastLine == cli.stdout[Len(cli.stdout)]

\* C15: at every line the command prints, line i, the reported base is
\* 2 + i, every monome of d at every depth has exactly that base, and the
\* line shows i, the base and the value Eval(d).
C15_ReportedBase ==
    LinePrinted =>
        /\ cli.b = 2 + cli.i
        /\ AllBases(mem, d, cli.b)
        /\ Len(cli.values) = cli.i + 1
        /\ cli.values[cli.i + 1] = Eval(mem, d)
        /\ LET start == FormatInt(cli.i) \o " " \o FormatInt(2 + cli.i) \o " "
                            \o FormatInt(Eval(mem, d)) \o " \""
           IN  SubSeq(LastLine, 1, Len(start)) = start

\* Line 3 of a run whose decomposition still has nested exponents.
C15_Witness ==
    /\ LinePrinted
    /\ cli.i = 3
    /\ cli.b = 5
    /\ Depth(Tree(mem, d)) >= 3
    /\ AllBases(mem, d, 5)
    /\ cli.values[4] = Eval(mem, d)

\* Steps of d := Decrement(IncrementBase(d)) from New(2, n) to zero, for
\* n = 0, 1, 2, 3.
StepsToZero == <<0, 1, 3, 5>>

\* C16: the command exits with status 0 right after printing the first
\* line whose decomposition is zero, and applies no step to a zero
\* decomposition; from n = 0, 1, 2, 3 zero is reached after 0, 1, 3 and 5
\* steps (values printed for 3: 3, 3, 3, 2, 1, 0), so with the default
\* limit of 10 turns the run ends by reaching zero, not by the limit.
C16_StopsAtZero ==
    /\ cli.pc = "step" => ~IsZero(mem, d)
    /\ \A k \in 1 .. Len(cli.values) :
           cli.values[k] = 0
               => /\ k = Len(cli.values)
                  /\ cli.pc = "exited"
                  /\ cli.exit = "os.Exit"
                  /\ cli.status = 0
                  /\ IsZero(mem, d)
    /\ (cli.pc = "exited" /\ op = "New" /\ n0 = 0 /\ cli.it = DefaultIt)
           => cli.exit = "os.Exit" /\ cli.status = 0 /\ cli.i = 0
    /\ (cli.pc = "exited" /\ op # "none" /\ n0 \in 1 .. 3 /\ cli.it = DefaultIt)
           => /\ cli.exit = "os.Exit"
              /\ cli.status = 0
              /\ IsZero(mem, d)
              /\ cli.i = StepsToZero[n0 + 1]
              /\ incs = StepsToZero[n0 + 1]
              /\ n0 = 3 => cli.values = <<3, 3, 3, 2, 1, 0>>

\* The run for 3 with the default limit, ended at zero after 5 steps.
C16_Witness ==
    /\ cli.pc = "exited"
    /\ cli.it = DefaultIt
    /\ n0 = 3
    /\ cli.exit = "os.Exit"
    /\ cli.status = 0
    /\ cli.i = 5
    /\ cli.values = <<3, 3, 3, 2, 1, 0>>
    /\ IsZero(mem, d)
====
